---- MODULE Spec2Model ----
(***************************************************************************)
(* Model of src/app.py: the /scrape handler of the books.toscrape.com      *)
(* scraper, its record extractor (scrape_books), its CSV writer            *)
(* (save_to_csv) and its keyword sentiment scorer (analyze_with_ai).       *)
(*                                                                         *)
(* Text is a sequence of one-character strings where the code looks inside *)
(* it (titles, analysed text) and a sequence of atomic tokens where the    *)
(* code only splits or joins it at fixed places (URLs, paths).  Python's   *)
(* None / missing element is the empty tuple <<>>, a present value v is    *)
(* the one-element tuple <<v>>.                                            *)
(***************************************************************************)
EXTENDS Integers, Sequences, FiniteSets, TLC

VARIABLES
    pc,           \* per request: position inside scrape()
    body,         \* per request: request.get_json()
    url,          \* per request: local `url`
    features,     \* per request: local `features`
    soup,         \* per request: the parsed document of the response
    books,        \* per request: local `books`
    file_exists,  \* per request: local `file_exists` of save_to_csv
    df,           \* per request: local `df` of save_to_csv (header + rows)
    save_success, \* per request: <<>> before save_to_csv returns, else <<bool>>
    backup_ts,    \* per request: second used in the backup file name, <<>> if none
    resp,         \* per request: the response returned, <<>> while running
    fetches,      \* per request: HTTP GETs issued for the current request
    steps,        \* per request: the steps of the current request, in order
    wrote,        \* per request: the current request wrote the store or a backup
    store,        \* scraped_data.csv: <<>> if absent, else <<lines>>
    backups,      \* backups/: function from second to file lines
    clock,        \* wall clock in seconds
    soup_in,      \* extractor harness: input document
    books_out,    \* extractor harness: <<>> or <<scrape_books result>>
    content_in,   \* sentiment harness: input text
    analysis_out  \* sentiment harness: <<>> or <<analyze_with_ai result>>

reqVars == <<pc, body, url, features, soup, books, file_exists, df,
             save_success, backup_ts, resp, fetches, steps, wrote>>
sharedVars == <<store, backups, clock>>
extractVars == <<soup_in, books_out>>
aiVars == <<content_in, analysis_out>>
vars == <<reqVars, sharedVars, extractVars, aiVars>>

----------------------------------------------------------------------------
(* Bounds *)

MaxClock == 1
MaxNodes == 2
MaxFrags == 2

----------------------------------------------------------------------------
(* Generic helpers *)

None == <<>>
Some(v) == <<v>>
IsNone(o) == o = <<>>
Val(o) == o[1]

RECURSIVE Concat(_)
Concat(ss) == IF ss = <<>> THEN <<>> ELSE Head(ss) \o Concat(Tail(ss))

Range(s) == {s[i] : i \in 1..Len(s)}

\* Python `needle in haystack` for str: needle occurs as a contiguous slice.
Contains(needle, haystack) ==
    \E i \in 0..(Len(haystack) - Len(needle)) :
        SubSeq(haystack, i + 1, i + Len(needle)) = needle

\* str.strip(): drop leading and trailing whitespace characters.
RECURSIVE LStrip(_)
LStrip(s) == IF s # <<>> /\ Head(s) = " " THEN LStrip(Tail(s)) ELSE s
RECURSIVE RStrip(_)
RStrip(s) ==
    IF s # <<>> /\ s[Len(s)] = " " THEN RStrip(SubSeq(s, 1, Len(s) - 1)) ELSE s
Strip(s) == RStrip(LStrip(s))

\* str.lower() on the letters A..Z; every other character is kept.
UpperToLower ==
    [A |-> "a", B |-> "b", C |-> "c", D |-> "d", E |-> "e", F |-> "f",
     G |-> "g", H |-> "h", I |-> "i", J |-> "j", K |-> "k", L |-> "l",
     M |-> "m", N |-> "n", O |-> "o", P |-> "p", Q |-> "q", R |-> "r",
     S |-> "s", T |-> "t", U |-> "u", V |-> "v", W |-> "w", X |-> "x",
     Y |-> "y", Z |-> "z"]
LowerChar(c) == IF c \in DOMAIN UpperToLower THEN UpperToLower[c] ELSE c
Lower(s) == [i \in 1..Len(s) |-> LowerChar(s[i])]

----------------------------------------------------------------------------
(* analyze_with_ai, app.py 128-149 *)

positive_words ==
    << <<"g","r","e","a","t">>,
       <<"e","x","c","e","l","l","e","n","t">>,
       <<"g","o","o","d">>,
       <<"a","w","e","s","o","m","e">> >>
negative_words ==
    << <<"p","o","o","r">>,
       <<"b","a","d">>,
       <<"t","e","r","r","i","b","l","e">>,
       <<"a","w","f","u","l">> >>

\* sum(1 for word in words if word in content_lower)
RECURSIVE CountIn(_, _)
CountIn(words, content_lower) ==
    IF words = <<>> THEN 0
    ELSE (IF Contains(Head(words), content_lower) THEN 1 ELSE 0)
         + CountIn(Tail(words), content_lower)

SentimentOfMutant(score) ==
    IF score >= 0 THEN "positive" ELSE "negative"

\* 'positive' if score > 0 else 'negative' if score < 0 else 'neutral'
SentimentOf(score) ==
    IF score > 0 THEN "positive" ELSE IF score < 0 THEN "negative" ELSE "neutral"

analyze_with_ai(content) ==
    LET content_lower == Lower(content)
        positive_score == CountIn(positive_words, content_lower)
        negative_score == CountIn(negative_words, content_lower)
        score == positive_score - negative_score
    IN  [sentiment |-> SentimentOf(score),
         score |-> score,
         positive_words |-> positive_score,
         negative_words |-> negative_score,
         analysis |-> "Basic sentiment analysis completed"]

----------------------------------------------------------------------------
(* URLs: token sequences.  No token other than "books.toscrape.com"        *)
(* contains a part of that name, so `'books.toscrape.com' in url` on the   *)
(* characters is membership of the token.                                  *)

Domain == "books.toscrape.com"

POPULAR_SITES ==
    [n \in {"WBB", "Deep 6GB", "Devi 0.9GB", "Design", "E-commerce", "News"} |->
        <<"https://", Domain, "/",
          CASE n = "WBB" -> "catalogue/category/books/travel_2/index.html"
            [] n = "Deep 6GB" -> "catalogue/category/books/mystery_3/index.html"
            [] n = "Devi 0.9GB" -> "catalogue/category/books/historical-fiction_4/index.html"
            [] n = "Design" -> "catalogue/category/books/art_25/index.html"
            [] n = "E-commerce" -> "catalogue/category/books/default_15/index.html"
            [] n = "News" -> "catalogue/category/books/nonfiction_13/index.html">>]

\* if url in POPULAR_SITES: url = POPULAR_SITES[url]   (a one-token name)
ResolveShortcut(u) ==
    IF Len(u) = 1 /\ u[1] \in DOMAIN POPULAR_SITES THEN POPULAR_SITES[u[1]] ELSE u

Schemes == {"http://", "https://"}

\* if not url.startswith(('http://', 'https://')): url = 'https://' + url
WithScheme(u) == IF u # <<>> /\ u[1] \in Schemes THEN u ELSE <<"https://">> \o u

\* 'books.toscrape.com' not in url
DomainAllowed(u) == Domain \in Range(u)

HostDelims == {"/", "?", "#"}

\* The authority of a URL that starts with a scheme: the tokens after the
\* scheme up to the first delimiter (what an HTTP client connects to).
RECURSIVE UpToDelim(_)
UpToDelim(u) ==
    IF u = <<>> \/ Head(u) \in HostDelims THEN <<>>
    ELSE <<Head(u)>> \o UpToDelim(Tail(u))
Host(u) == UpToDelim(Tail(u))

\* '/'.join(url.split('/')[:3]): scheme and everything up to the next '/'.
RECURSIVE UpToSlash(_)
UpToSlash(u) ==
    IF u = <<>> \/ Head(u) = "/" THEN <<>> ELSE <<Head(u)>> \o UpToSlash(Tail(u))
BaseUrl(u) == <<Head(u)>> \o UpToSlash(Tail(u))

\* src.replace('../..', '')
StripParent(path) == SelectSeq(path, LAMBDA tok : tok # "../..")

\* urljoin(base_url, image_path) for a base without a path: an absolute URL
\* replaces the base, an empty path keeps it, a rooted path is appended, a
\* relative path is appended after a '/'.
urljoin(base_url, image_path) ==
    IF image_path = <<>> THEN base_url
    ELSE IF image_path[1] \in Schemes THEN image_path
    ELSE IF image_path[1] = "/" THEN base_url \o image_path
    ELSE base_url \o <<"/">> \o image_path

----------------------------------------------------------------------------
(* Documents.  An article.product_pod node and a product page carry, for   *)
(* every selector the extractor uses, what the selector finds:             *)
(*   h3a      None: no `h3 a`; <<None>>: no title attribute; <<<<t>>>>     *)
(*   price    None or <<text of p.price_color>>                            *)
(*   star     None or <<class tokens of p.star-rating>>                    *)
(*   instock  None or <<text of p.instock>>                                *)
(*   img      None: no img; <<None>>: no src attribute; <<<<path>>>>       *)

OUT_OF_STOCK == <<"Out of stock">>

\* select_one(...).get_text(strip=True); raises on None
\* ...['class'][1] + ' stars'; raises on None or on a single class token
\* The five fields of one node, or None where the code raises.
FieldsOf(title, price, star, instock, img, base_url) ==
    IF \/ IsNone(title)
       \/ IsNone(price)
       \/ IsNone(star) \/ Len(Val(star)) < 2
       \/ IsNone(img) \/ IsNone(Val(img))
    THEN None
    ELSE Some([title |-> Val(title),
               price |-> Strip(Val(price)),
               rating |-> <<Val(star)[2], " stars">>,
               availability |-> IF IsNone(instock) THEN OUT_OF_STOCK
                                ELSE Strip(Val(instock)),
               image_url |-> urljoin(base_url, StripParent(Val(Val(img))))])

\* app.py 45-58: title = article.select_one('h3 a')['title'], ...
extract_article(article, base_url) ==
    FieldsOf(IF IsNone(article.h3a) THEN None ELSE Val(article.h3a),
             article.price, article.star, article.instock, article.img,
             base_url)

\* app.py 66-80: product = page.select_one('.product_main'), title from h1
extract_product(page, base_url) ==
    IF IsNone(page.product_main) THEN None
    ELSE LET product == Val(page.product_main)
         IN  FieldsOf(IF IsNone(product.h1) THEN None
                      ELSE Some(Strip(Val(product.h1))),
                      product.price, product.star, product.instock,
                      Val(page.gallery).img, base_url)

\* app.py 43-61: one record per article, an article that raises is skipped
RECURSIVE scrape_articles(_, _)
scrape_articles(articles, base_url) ==
    IF articles = <<>> THEN <<>>
    ELSE extract_article(Head(articles), base_url)
         \o scrape_articles(Tail(articles), base_url)

\* app.py 37-84
scrape_books(page, base_url) ==
    IF page.articles # <<>> THEN scrape_articles(page.articles, base_url)
    ELSE IF ~IsNone(page.gallery) THEN extract_product(page, base_url)
    ELSE <<>>

----------------------------------------------------------------------------
(* Records, data frames and CSV files *)

\* Dict insertion order of a book's keys (app.py 52-58, 91-92, 239).
KeyOrder ==
    <<"title", "price", "rating", "availability", "image_url",
      "scrape_timestamp", "source_url", "ai_analysis">>

\* datetime.now().isoformat(), to the second
IsoFormat(now) == <<"T", ToString(now)>>

\* app.py 90-92: book['scrape_timestamp'] = ..., book['source_url'] = ...
Stamp(book, now, source_url) ==
    [k \in DOMAIN book \cup {"scrape_timestamp", "source_url"} |->
        IF k = "scrape_timestamp" THEN IsoFormat(now)
        ELSE IF k = "source_url" THEN source_url
        ELSE book[k]]

\* pd.DataFrame(data): columns are the keys in insertion order, one row of
\* cells per record.
ColumnsOf(data) ==
    IF data = <<>> THEN <<>>
    ELSE SelectSeq(KeyOrder, LAMBDA k : k \in DOMAIN data[1])
DataFrame(data) ==
    LET columns == ColumnsOf(data)
    IN  [columns |-> columns,
         rows |-> [i \in 1..Len(data) |->
                      [j \in 1..Len(columns) |-> data[i][columns[j]]]]]

\* The lines df.to_csv(..., index=False, header=h) writes: a line is a
\* sequence of cells, the header line holds the column names.
HeaderLine(frame) == [j \in 1..Len(frame.columns) |-> <<frame.columns[j]>>]
CsvLines(frame, header) ==
    (IF header THEN <<HeaderLine(frame)>> ELSE <<>>) \o frame.rows

ToCsvMainMutant(file, frame, exists) ==
    Some(CsvLines(frame, TRUE))

\* app.py 101-106: mode 'a' without header if the file was seen to exist,
\* else mode 'w' (truncate) with header.
ToCsvMain(file, frame, exists) ==
    IF exists
    THEN Some((IF IsNone(file) THEN <<>> ELSE Val(file)) \o CsvLines(frame, FALSE))
    ELSE Some(CsvLines(frame, TRUE))

\* app.py 109-110: "%Y%m%d_%H%M%S", one name per second
BackupName(now) == now

\* app.py 111: df.to_csv(backup_filename, index=False), a fresh file
ToCsvBackup(dir, frame, now) ==
    [n \in DOMAIN dir \cup {BackupName(now)} |->
        IF n = BackupName(now) THEN CsvLines(frame, TRUE) ELSE dir[n]]

----------------------------------------------------------------------------
(* Post-processors *)

IVs == {"iv1", "iv2"}

\* app.py 118-122: a Fernet token.  The IV is fresh for every call (the
\* process's random source `seed` and the number of the call); the body
\* hides the plaintext: its characters alternate with key material.
encrypt_data(data, seed, call) ==
    <<"gAAAAA", ToString(call)>>
    \o [i \in 1..(2 * Len(data)) |-> IF i % 2 = 1 THEN data[(i + 1) \div 2] ELSE seed]
\* app.py 124-126
decrypt_data(encrypted_data) ==
    [i \in 1..((Len(encrypted_data) - 2) \div 2) |-> encrypted_data[2 * i + 1]]

\* app.py 237-239: book['ai_analysis'] = analyze_with_ai(title + " " + '')
ApplyAi(data) ==
    [i \in 1..Len(data) |->
        [k \in DOMAIN data[i] \cup {"ai_analysis"} |->
            IF k = "ai_analysis"
            THEN analyze_with_ai(data[i].title \o <<" ">> \o <<>>)
            ELSE data[i][k]]]

\* app.py 243-246: title and price replaced by their ciphertexts
ApplyEncryption(data, seed) ==
    [i \in 1..Len(data) |->
        [data[i] EXCEPT !.title = encrypt_data(@, seed, 2 * i - 1),
                        !.price = encrypt_data(@, seed, 2 * i)]]

PostProcessedMutant(data, feats, seed) ==
    LET enc == IF feats.security THEN ApplyEncryption(data, seed) ELSE data
    IN  IF feats.ai THEN ApplyAi(enc) ELSE enc

\* app.py 236-247: sentiment first, encryption second
PostProcessed(data, feats, seed) ==
    LET tagged == IF feats.ai THEN ApplyAi(data) ELSE data
    IN  IF feats.security THEN ApplyEncryption(tagged, seed) ELSE tagged

----------------------------------------------------------------------------
(* Responses of scrape() *)

CSV_FILENAME == <<"scraped_data.csv">>

ErrorResponse(status, keys, error) ==
    [status |-> status, keys |-> keys, error |-> error,
     supported_sites |-> {}, result |-> None]

\* app.py 163
InvalidFormat == ErrorResponse(400, {"error"}, "Invalid request format")
\* app.py 175
NoUrl == ErrorResponse(400, {"error"}, "No URL provided")
\* app.py 181-184
Unsupported ==
    [ErrorResponse(400, {"error", "supported_sites"},
                   "This demo only supports books.toscrape.com URLs")
     EXCEPT !.supported_sites = DOMAIN POPULAR_SITES]
FetchFailedMutant == ErrorResponse(400, {"error"}, "Failed to fetch URL")

\* app.py 195-198
FetchFailed == ErrorResponse(400, {"error", "suggestion"}, "Failed to fetch URL")

NoDataMutant == FetchFailed

\* app.py 208-211
NoData == ErrorResponse(404, {"error", "suggestion"}, "No book data found on this page")
\* app.py 253-256
Unexpected == ErrorResponse(500, {"error", "details"}, "An unexpected error occurred")

\* app.py 220-249
Success(data, source, feats, saved) ==
    [status |-> 200,
     keys |-> {"books", "source", "count", "processing_time", "features", "storage"}
              \cup (IF feats.ai THEN {"ai_enabled"} ELSE {})
              \cup (IF feats.security THEN {"encryption_enabled"} ELSE {}),
     error |-> "",
     supported_sites |-> {},
     result |-> Some([books |-> data,
                      source |-> source,
                      count |-> Len(data),
                      features |-> [speed |-> feats.speed, ai |-> feats.ai,
                                    security |-> feats.security],
                      storage |-> [saved_to_csv |-> saved,
                                   filename |-> IF saved THEN Some(CSV_FILENAME)
                                                ELSE None]])]

----------------------------------------------------------------------------
(* Inputs of the handler: request bodies and what the web answers *)

Requests == {"r1", "r2"}

JsonStr(tokens) == [t |-> "str", s |-> tokens]
JsonNull == [t |-> "null", s |-> <<>>]
FlagDict(ai, security) ==
    [t |-> "dict", speed |-> FALSE, ai |-> ai, security |-> security]
NotADict == [t |-> "null", speed |-> FALSE, ai |-> FALSE, security |-> FALSE]

\* request.get_json(): JSON null, an array ["url"], or an object whose
\* "url" and "features" keys may be absent (None).
JsonBody(kind, u, f) == [kind |-> kind, url |-> u, features |-> f]

RequestBodies ==
    { JsonBody("null", None, None),
      JsonBody("array", None, None),
      JsonBody("object", None, None),
      JsonBody("object", Some(JsonNull), None),
      JsonBody("object", Some(JsonStr(<<" ">>)), None),
      JsonBody("object", Some(JsonStr(<<"https://", "example.com", "/">>)), None),
      JsonBody("object", Some(JsonStr(<<"Design">>)), Some(FlagDict(TRUE, TRUE))),
      JsonBody("object", Some(JsonStr(<<" ", Domain, "/", "x", " ">>)),
               Some(NotADict)),
      JsonBody("object",
               Some(JsonStr(<<"http://", "evil.example", "/", Domain>>)), None) }

Article(h3a, price, star, instock, img) ==
    [h3a |-> h3a, price |-> price, star |-> star, instock |-> instock, img |-> img]
Page(articles, gallery, product_main) ==
    [articles |-> articles, gallery |-> gallery, product_main |-> product_main]

GoodArticle ==
    Article(Some(Some(<<"G","o","o","d"," ","A","r","t">>)), Some(<<" ","5","1"," ">>),
            Some(<<"star-rating", "Three">>), Some(<<" ","I","n"," ">>),
            Some(Some(<<"../..", "/", "media/a.jpg">>)))
BadArticle ==
    Article(Some(Some(<<"B","a","d">>)), Some(<<"9">>),
            Some(<<"star-rating", "One">>), None,
            Some(Some(<<"media/b.jpg">>)))
NoTitleArticle ==
    Article(Some(None), Some(<<"7">>), Some(<<"star-rating", "Two">>), None,
            Some(Some(<<"media/c.jpg">>)))

CataloguePage == Page(<<GoodArticle, NoTitleArticle, BadArticle>>, None, None)
ProductPage ==
    Page(<<>>, Some([img |-> Some(Some(<<"../..", "/", "media/p.jpg">>))]),
         Some([h1 |-> Some(<<" ","G","r","e","a","t"," ">>), price |-> Some(<<"3">>),
               star |-> Some(<<"star-rating", "Five">>), instock |-> None]))
EmptyPage == Page(<<>>, None, None)
\* a .product_main without a #product_gallery: neither page shape
OrphanPage ==
    Page(<<>>, None,
         Some([h1 |-> Some(<<"B","a","d">>), price |-> Some(<<"3">>),
               star |-> Some(<<"star-rating", "Five">>), instock |-> None]))

\* What a GET may return as response.text, parsed.
Pages == {CataloguePage, ProductPage, EmptyPage, OrphanPage}

----------------------------------------------------------------------------
(* The handler scrape(), app.py 155-256, one run per request; the server    *)
(* runs requests on concurrent threads.                                    *)

IdleFeatures == FlagDict(FALSE, FALSE)
IdleFrame == [columns |-> <<>>, rows |-> <<>>]

Init ==
    /\ pc = [t \in Requests |-> "idle"]
    /\ body = [t \in Requests |-> None]
    /\ url = [t \in Requests |-> <<>>]
    /\ features = [t \in Requests |-> IdleFeatures]
    /\ soup = [t \in Requests |-> None]
    /\ books = [t \in Requests |-> <<>>]
    /\ file_exists = [t \in Requests |-> FALSE]
    /\ df = [t \in Requests |-> IdleFrame]
    /\ save_success = [t \in Requests |-> None]
    /\ backup_ts = [t \in Requests |-> None]
    /\ resp = [t \in Requests |-> None]
    /\ fetches = [t \in Requests |-> 0]
    /\ steps = [t \in Requests |-> <<>>]
    /\ wrote = [t \in Requests |-> FALSE]
    /\ store = None
    /\ backups = <<>>
    /\ clock = 0
    /\ soup_in = EmptyPage
    /\ books_out = None
    /\ content_in = <<>>
    /\ analysis_out = None

\* return jsonify(...), status
Return(t, response) ==
    /\ resp' = [resp EXCEPT ![t] = Some(response)]
    /\ pc' = [pc EXCEPT ![t] = "done"]

\* app.py 160-184: parse the body, resolve and check the URL
Validate(t) ==
    /\ pc[t] = "idle"
    /\ \E b \in RequestBodies :
        /\ body' = [body EXCEPT ![t] = Some(b)]
        /\ IF b.kind = "null" \/ (b.kind = "object" /\ IsNone(b.url))
           THEN /\ Return(t, InvalidFormat)
                /\ steps' = [steps EXCEPT ![t] = <<"validate", "respond">>]
                /\ UNCHANGED <<url, features>>
           ELSE IF b.kind = "array" \/ Val(b.url).t # "str"
           THEN \* data.get / .strip() raises AttributeError
                /\ Return(t, Unexpected)
                /\ steps' = [steps EXCEPT ![t] = <<"validate", "respond">>]
                /\ UNCHANGED <<url, features>>
           ELSE LET stripped == Strip(Val(b.url).s)
                    resolved == ResolveShortcut(stripped)
                    full == WithScheme(resolved)
                    feats == IF IsNone(b.features) THEN FlagDict(FALSE, FALSE)
                             ELSE Val(b.features)
                IN  /\ features' = [features EXCEPT ![t] = feats]
                    /\ IF resolved = <<>>
                       THEN /\ Return(t, NoUrl)
                            /\ steps' = [steps EXCEPT ![t] = <<"validate", "respond">>]
                            /\ url' = [url EXCEPT ![t] = resolved]
                       ELSE IF ~DomainAllowed(full)
                       THEN /\ Return(t, Unsupported)
                            /\ steps' = [steps EXCEPT ![t] = <<"validate", "respond">>]
                            /\ url' = [url EXCEPT ![t] = full]
                       ELSE /\ pc' = [pc EXCEPT ![t] = "fetch"]
                            /\ steps' = [steps EXCEPT ![t] = <<"validate">>]
                            /\ url' = [url EXCEPT ![t] = full]
                            /\ UNCHANGED resp
    /\ UNCHANGED <<soup, books, file_exists, df, save_success, backup_ts,
                   fetches, wrote, store, backups, clock>>
    /\ UNCHANGED <<extractVars, aiVars>>

\* app.py 191-198: requests.get + raise_for_status
Fetch(t) ==
    /\ pc[t] = "fetch"
    /\ fetches' = [fetches EXCEPT ![t] = @ + 1]
    /\ \/ /\ Return(t, FetchFailed)
          /\ steps' = [steps EXCEPT ![t] = @ \o <<"fetch", "respond">>]
          /\ UNCHANGED soup
       \/ \E page \in Pages :
          /\ soup' = [soup EXCEPT ![t] = Some(page)]
          /\ pc' = [pc EXCEPT ![t] = "extract"]
          /\ steps' = [steps EXCEPT ![t] = Append(@, "fetch")]
          /\ UNCHANGED resp
    /\ UNCHANGED <<body, url, features, books, file_exists, df, save_success,
                   backup_ts, wrote, sharedVars, extractVars, aiVars>>

\* app.py 200-211: scrape_books, 404 on an empty result
Extract(t) ==
    /\ pc[t] = "extract"
    /\ LET found == scrape_books(Val(soup[t]), BaseUrl(url[t]))
       IN  /\ books' = [books EXCEPT ![t] = found]
           /\ IF found = <<>>
              THEN /\ Return(t, NoData)
                   /\ steps' = [steps EXCEPT ![t] = @ \o <<"extract", "respond">>]
              ELSE /\ pc' = [pc EXCEPT ![t] = "persist"]
                   /\ steps' = [steps EXCEPT ![t] = Append(@, "extract")]
                   /\ UNCHANGED resp
    /\ UNCHANGED <<body, url, features, soup, file_exists, df, save_success,
                   backup_ts, fetches, wrote, sharedVars, extractVars, aiVars>>

\* app.py 90-98: stamp the records, build df, look whether the store exists
SaveCheck(t) ==
    /\ pc[t] = "persist"
    /\ LET stamped == [i \in 1..Len(books[t]) |-> Stamp(books[t][i], clock, url[t])]
       IN  /\ books' = [books EXCEPT ![t] = stamped]
           /\ df' = [df EXCEPT ![t] = DataFrame(stamped)]
    /\ file_exists' = [file_exists EXCEPT ![t] = ~IsNone(store)]
    /\ pc' = [pc EXCEPT ![t] = "save_main"]
    /\ steps' = [steps EXCEPT ![t] = Append(@, "persist")]
    /\ UNCHANGED <<body, url, features, soup, save_success, backup_ts, resp,
                   fetches, wrote, sharedVars, extractVars, aiVars>>

\* app.py 101-106: write the cumulative store; an I/O error makes
\* save_to_csv return False (114-116)
SaveMain(t) ==
    /\ pc[t] = "save_main"
    /\ \/ /\ store' = ToCsvMain(store, df[t], file_exists[t])
          /\ wrote' = [wrote EXCEPT ![t] = TRUE]
          /\ pc' = [pc EXCEPT ![t] = "save_backup"]
          /\ UNCHANGED save_success
       \/ /\ save_success' = [save_success EXCEPT ![t] = Some(FALSE)]
          /\ pc' = [pc EXCEPT ![t] = "post"]
          /\ UNCHANGED <<store, wrote>>
    /\ UNCHANGED <<body, url, features, soup, books, file_exists, df, backup_ts,
                   resp, fetches, steps, backups, clock,
                   extractVars, aiVars>>

\* app.py 109-113: write the snapshot named after the current second
SaveBackup(t) ==
    /\ pc[t] = "save_backup"
    /\ \/ /\ backups' = ToCsvBackup(backups, df[t], clock)
          /\ backup_ts' = [backup_ts EXCEPT ![t] = Some(clock)]
          /\ save_success' = [save_success EXCEPT ![t] = Some(TRUE)]
       \/ /\ save_success' = [save_success EXCEPT ![t] = Some(FALSE)]
          /\ UNCHANGED <<backups, backup_ts>>
    /\ pc' = [pc EXCEPT ![t] = "post"]
    /\ UNCHANGED <<body, url, features, soup, books, file_exists, df, resp,
                   fetches, steps, wrote, store, clock,
                   extractVars, aiVars>>

\* app.py 219-247: read the flags (features.get raises on a non-dict and the
\* handler answers 500), then sentiment tagging, then encryption
PostProcess(t) ==
    /\ pc[t] = "post"
    /\ IF features[t].t # "dict"
       THEN /\ Return(t, Unexpected)
            /\ steps' = [steps EXCEPT ![t] = Append(@, "respond")]
            /\ UNCHANGED books
       ELSE /\ \E seed \in IVs :
                books' = [books EXCEPT ![t] = PostProcessed(@, features[t], seed)]
            /\ pc' = [pc EXCEPT ![t] = "respond"]
            /\ steps' = [steps EXCEPT ![t] = Append(@, "post-process")]
            /\ UNCHANGED resp
    /\ UNCHANGED <<body, url, features, soup, file_exists, df, save_success,
                   backup_ts, fetches, wrote, sharedVars, extractVars, aiVars>>

\* app.py 249: return jsonify(result)
Respond(t) ==
    /\ pc[t] = "respond"
    /\ Return(t, Success(books[t], url[t], features[t], Val(save_success[t])))
    /\ steps' = [steps EXCEPT ![t] = Append(@, "respond")]
    /\ UNCHANGED <<body, url, features, soup, books, file_exists, df,
                   save_success, backup_ts, fetches, wrote, sharedVars,
                   extractVars, aiVars>>

\* A second passes.
Tick ==
    /\ clock < MaxClock
    /\ clock' = clock + 1
    /\ UNCHANGED <<reqVars, store, backups, extractVars, aiVars>>

Next ==
    \/ \E t \in Requests : Validate(t)
    \/ \E t \in Requests : Fetch(t)
    \/ \E t \in Requests : Extract(t)
    \/ \E t \in Requests : SaveCheck(t)
    \/ \E t \in Requests : SaveMain(t)
    \/ \E t \in Requests : SaveBackup(t)
    \/ \E t \in Requests : PostProcess(t)
    \/ \E t \in Requests : Respond(t)
    \/ Tick

Spec == Init /\ [][Next]_vars

\* The same handler with the requests served one after the other.
Alone(t) == \A q \in Requests \ {t} : pc[q] \in {"idle", "done"}

SeqNext ==
    \/ \E t \in Requests : Alone(t) /\ Validate(t)
    \/ \E t \in Requests : Alone(t) /\ Fetch(t)
    \/ \E t \in Requests : Alone(t) /\ Extract(t)
    \/ \E t \in Requests : Alone(t) /\ SaveCheck(t)
    \/ \E t \in Requests : Alone(t) /\ SaveMain(t)
    \/ \E t \in Requests : Alone(t) /\ SaveBackup(t)
    \/ \E t \in Requests : Alone(t) /\ PostProcess(t)
    \/ \E t \in Requests : Alone(t) /\ Respond(t)
    \/ Tick

SeqSpec == Init /\ [][SeqNext]_vars

----------------------------------------------------------------------------
(* scrape_books on its own, over every small document *)

SeqsUpTo(S, n) == UNION {[1..k -> S] : k \in 0..n}

TitleChoices == {None, Some(None), Some(Some(<<>>)), Some(Some(<<"G","o","o","d">>))}
ImgChoices == {None, Some(None), Some(Some(<<"../..", "/", "media/a.jpg">>))}

HarnessArticles ==
    { Article(h, Some(<<"5">>), Some(<<"star-rating", "Three">>), None,
              Some(Some(<<"media/b.jpg">>))) : h \in TitleChoices }
    \cup
    { Article(Some(Some(<<"B","a","d">>)), Some(<<" ","9"," ">>),
              Some(<<"star-rating", "One">>), Some(<<" ","I","n"," ">>), g)
        : g \in ImgChoices }
    \cup
    { Article(Some(Some(<<"A","r","t">>)), None, Some(<<"star-rating", "Two">>),
              None, Some(Some(<<"media/c.jpg">>))),
      Article(Some(Some(<<"A","r","t">>)), Some(<<"7">>), None,
              None, Some(Some(<<"media/c.jpg">>))),
      Article(Some(Some(<<"A","r","t">>)), Some(<<"7">>), Some(<<"star-rating">>),
              None, Some(Some(<<"media/c.jpg">>))) }

HarnessProducts ==
    { None,
      Some([h1 |-> None, price |-> Some(<<"3">>),
            star |-> Some(<<"star-rating", "Five">>), instock |-> None]),
      Some([h1 |-> Some(<<" ","G","r","e","a","t"," ">>), price |-> Some(<<"3">>),
            star |-> Some(<<"star-rating", "Five">>), instock |-> None]) }

HarnessGalleries == {None} \cup {Some([img |-> g]) : g \in ImgChoices}

HarnessPages ==
    {Page(a, g, m) : a \in SeqsUpTo(HarnessArticles, MaxNodes),
                     g \in HarnessGalleries, m \in HarnessProducts}

HarnessBase == <<"https://", Domain>>

ExtractInit ==
    /\ Init!1 /\ Init!2 /\ Init!3 /\ Init!4 /\ Init!5 /\ Init!6 /\ Init!7
    /\ Init!8 /\ Init!9 /\ Init!10 /\ Init!11 /\ Init!12 /\ Init!13 /\ Init!14
    /\ Init!15 /\ Init!16 /\ Init!17
    /\ soup_in \in HarnessPages
    /\ books_out = None
    /\ content_in = <<>>
    /\ analysis_out = None

RunExtractor ==
    /\ IsNone(books_out)
    /\ books_out' = Some(scrape_books(soup_in, HarnessBase))
    /\ UNCHANGED <<reqVars, sharedVars, soup_in, aiVars>>

ExtractNext == RunExtractor

ExtractSpec == ExtractInit /\ [][ExtractNext]_vars

----------------------------------------------------------------------------
(* analyze_with_ai on its own, over every small text *)

Fragments ==
    { <<"G","o","o","d">>, <<"g","r","e","a","t">>, <<"B","A","D">>,
      <<"b">>, <<"a","d">>, <<" ">>, <<"a","w","f","u","l">>, <<"A","r","t">> }

Texts == {Concat(fs) : fs \in SeqsUpTo(Fragments, MaxFrags)}

AiInit ==
    /\ Init!1 /\ Init!2 /\ Init!3 /\ Init!4 /\ Init!5 /\ Init!6 /\ Init!7
    /\ Init!8 /\ Init!9 /\ Init!10 /\ Init!11 /\ Init!12 /\ Init!13 /\ Init!14
    /\ Init!15 /\ Init!16 /\ Init!17
    /\ soup_in = EmptyPage
    /\ books_out = None
    /\ content_in \in Texts
    /\ analysis_out = None

RunAnalysis ==
    /\ IsNone(analysis_out)
    /\ analysis_out' = Some(analyze_with_ai(content_in))
    /\ UNCHANGED <<reqVars, sharedVars, extractVars, content_in>>

AiNext == RunAnalysis

AiSpec == AiInit /\ [][AiNext]_vars

----------------------------------------------------------------------------
(* Properties *)

Done(r) == pc[r] = "done"
Status(r) == Val(resp[r]).status
Failed(r) == Done(r) /\ Status(r) # 200

\* The URL a request asks for, after strip, shortcut resolution and scheme.
HasUrl(r) ==
    /\ ~IsNone(body[r])
    /\ Val(body[r]).kind = "object"
    /\ ~IsNone(Val(body[r]).url)
    /\ Val(Val(body[r]).url).t = "str"
AskedUrl(r) == ResolveShortcut(Strip(Val(Val(body[r]).url).s))
ResolvedUrl(r) == WithScheme(AskedUrl(r))

\* What the extractor found for the request, before any stamping or
\* post-processing.
Plain(r) == scrape_books(Val(soup[r]), BaseUrl(url[r]))

\* C1: a request whose resolved URL has a host other than books.toscrape.com
\* issues no HTTP fetch and is answered 400 with the list of shortcut names.
C1_ForeignHostRejected ==
    \A r \in Requests :
        (HasUrl(r) /\ AskedUrl(r) # <<>> /\ Host(ResolvedUrl(r)) # <<Domain>>)
        => /\ fetches[r] = 0
           /\ Done(r) => Val(resp[r]) = Unsupported

\* C6: a document with neither an article.product_pod nor a #product_gallery
\* extracts to the empty list, and the handler answers 404 "No book data
\* found", which differs in status and message from the fetch-failure answer.
C6_NeitherShapeIsNoData ==
    \A r \in Requests :
        ( /\ ~IsNone(soup[r])
          /\ Val(soup[r]).articles = <<>>
          /\ IsNone(Val(soup[r]).gallery)
          /\ pc[r] # "extract" )
        => /\ books[r] = <<>>
           /\ Done(r)
           /\ Status(r) = 404
           /\ Val(resp[r]).error = "No book data found on this page"
           /\ Status(r) # FetchFailed.status
           /\ Val(resp[r]).error # FetchFailed.error
           /\ steps[r] = <<"validate", "fetch", "extract", "respond">>

C6_Witness ==
    \E r \in Requests :
        /\ Done(r)
        /\ soup[r] = Some(OrphanPage)
        /\ Status(r) = 404

\* C5: when an I/O step of save_to_csv fails, the request still ends with the
\* success envelope: every extracted record, the right count,
\* saved_to_csv = false and filename = null.
C5_SaveFailureIsNotFatal ==
    \A r \in Requests :
        (Done(r) /\ save_success[r] = Some(FALSE))
        => /\ Status(r) = 200
           /\ LET result == Val(Val(resp[r]).result)
              IN  /\ Len(result.books) = Len(Plain(r))
                  /\ result.count = Len(Plain(r))
                  /\ result.storage.saved_to_csv = FALSE
                  /\ IsNone(result.storage.filename)

\* C10: a request that ends with an error response has written neither the
\* cumulative store nor a backup file.
C10_ErrorsWriteNothing ==
    \A r \in Requests : Failed(r) => ~wrote[r]

----------------------------------------------------------------------------
(* C4: the error conditions and the answers that report them *)

\* The condition a finished, failed request is in, from its input and from
\* what the web answered.
Condition(r) ==
    LET b == Val(body[r])
    IN  IF \/ b.kind = "null"
           \/ (b.kind = "object" /\ IsNone(b.url))
           \/ (HasUrl(r) /\ (AskedUrl(r) = <<>> \/ ~DomainAllowed(ResolvedUrl(r))))
        THEN "bad_input"
        ELSE IF fetches[r] = 1 /\ IsNone(soup[r]) THEN "fetch_failure"
        ELSE IF ~IsNone(soup[r]) /\ Plain(r) = <<>> THEN "no_data"
        ELSE "unexpected"

Answer(r) == <<Status(r), "suggestion" \in Val(resp[r]).keys>>

\* C4 as claimed: bad input is answered 4xx, no data 404, an unexpected
\* failure 500, and two requests in different error conditions never get the
\* same status.
C4_StatusSeparatesConditions ==
    /\ \A r \in Requests :
        Failed(r) =>
            /\ Condition(r) = "bad_input" => Status(r) \in 400..499
            /\ Condition(r) = "no_data" => Status(r) = 404
            /\ Condition(r) = "unexpected" => Status(r) = 500
    /\ \A r, q \in Requests :
        (Failed(r) /\ Failed(q) /\ Condition(r) # Condition(q))
        => Status(r) # Status(q)

\* C4 as amended: the status together with the presence of the "suggestion"
\* key separates the four conditions; bad input is 400 without "suggestion",
\* a fetch failure 400 with it, no data 404, an unexpected failure 500 with
\* "details".
C4_StatusAndKeysSeparateConditions ==
    /\ \A r \in Requests :
        Failed(r) =>
            /\ Condition(r) = "bad_input" => Answer(r) = <<400, FALSE>>
            /\ Condition(r) = "fetch_failure" => Answer(r) = <<400, TRUE>>
            /\ Condition(r) = "no_data" => Answer(r) = <<404, TRUE>>
            /\ Condition(r) = "unexpected"
               => (Status(r) = 500 /\ "details" \in Val(resp[r]).keys)
    /\ \A r, q \in Requests :
        (Failed(r) /\ Failed(q) /\ Condition(r) # Condition(q))
        => Answer(r) # Answer(q)

C4_Witness ==
    \E r, q \in Requests :
        /\ Failed(r) /\ Failed(q)
        /\ Condition(r) = "bad_input"
        /\ Condition(q) = "fetch_failure"

----------------------------------------------------------------------------
(* C9: the order of the steps, and what reaches the files *)

StepRank(step) ==
    CASE step = "validate" -> 1
      [] step = "fetch" -> 2
      [] step = "extract" -> 3
      [] step = "persist" -> 4
      [] step = "post-process" -> 5
      [] step = "respond" -> 6

\* The header of a file of stamped records: no ai_analysis column.
StampedHeader == [j \in 1..7 |-> <<KeyOrder[j]>>]

\* Every line of a file is the header or a row some request built.
LinesFromFrames(lines) ==
    \A i \in 1..Len(lines) :
        \/ lines[i] = StampedHeader
        \/ \E r \in Requests : lines[i] \in Range(df[r].rows)

----------------------------------------------------------------------------
(* C8 and C3: the cumulative store and the backups *)

HeaderCount(lines) == Cardinality({i \in 1..Len(lines) : lines[i] = StampedHeader})

\* C8: whatever the interleaving, the store has one header row, its first
\* line, and holds the rows of every batch whose save_to_csv returned True.
C8_StoreKeepsEveryBatch ==
    /\ ~IsNone(store) =>
          /\ Val(store)[1] = StampedHeader
          /\ HeaderCount(Val(store)) = 1
    /\ \A r \in Requests :
          save_success[r] = Some(TRUE) => Contains(df[r].rows, Val(store))

BothSaved ==
    \A r \in Requests : Done(r) /\ save_success[r] = Some(TRUE)

\* C3 as claimed: after two successful scrapes in sequence the store is one
\* header followed by the A rows and the B rows, and there are two backup
\* files, one holding the A rows and one the B rows.
C3_TwoBackupsAlways ==
    BothSaved =>
        \E a, b \in Requests :
            /\ a # b
            /\ store = Some(<<StampedHeader>> \o df[a].rows \o df[b].rows)
            /\ Cardinality(DOMAIN backups) = 2
            /\ backups[Val(backup_ts[a])] = <<StampedHeader>> \o df[a].rows
            /\ backups[Val(backup_ts[b])] = <<StampedHeader>> \o df[b].rows

\* C3 as amended: the store is one header followed by the A rows and the B
\* rows; the two backups are distinct files, each holding its own batch,
\* exactly when the two saves fall in different seconds; in the same second
\* there is one backup file and it holds the B rows only.
C3_BackupsPerSecond ==
    BothSaved =>
        \E a, b \in Requests :
            /\ a # b
            /\ store = Some(<<StampedHeader>> \o df[a].rows \o df[b].rows)
            /\ DOMAIN backups = {Val(backup_ts[a]), Val(backup_ts[b])}
            /\ backups[Val(backup_ts[b])] = <<StampedHeader>> \o df[b].rows
            /\ backup_ts[a] # backup_ts[b] =>
                  backups[Val(backup_ts[a])] = <<StampedHeader>> \o df[a].rows

C3_Witness ==
    /\ BothSaved
    /\ backup_ts["r1"] = backup_ts["r2"]
    /\ Len(df["r1"].rows) = 2
    /\ Len(df["r2"].rows) = 1

----------------------------------------------------------------------------
(* C2: the extractor on catalogue pages *)

\* A node the specification calls well formed: a link with a non-empty
\* title, a price, a star-rating with its second class token, an image
\* source.
WellFormed(a) ==
    /\ ~IsNone(a.h3a) /\ ~IsNone(Val(a.h3a)) /\ Val(Val(a.h3a)) # <<>>
    /\ ~IsNone(a.price)
    /\ ~IsNone(a.star) /\ Len(Val(a.star)) >= 2
    /\ ~IsNone(a.img) /\ ~IsNone(Val(a.img))

FiveFields == {"title", "price", "rating", "availability", "image_url"}

\* C2: on a catalogue page the extractor returns one record per well-formed
\* node, in document order, each with the five fields and a non-empty title.
C2_OneRecordPerWellFormedNode ==
    (~IsNone(books_out) /\ soup_in.articles # <<>>) =>
        LET out == Val(books_out)
            good == SelectSeq(soup_in.articles, WellFormed)
        IN  /\ Len(out) = Len(good)
            /\ \A i \in 1..Len(out) :
                  /\ DOMAIN out[i] = FiveFields
                  /\ out[i].title # <<>>
                  /\ i <= Len(good) => out[i].title = Val(Val(good[i].h3a))

----------------------------------------------------------------------------
(* C7: the sentiment score *)

\* word occurs in text: text = before \o word \o after
Occurs(word, text) ==
    \E n \in 0..Len(text) :
        /\ n + Len(word) <= Len(text)
        /\ \A k \in 1..Len(word) : text[n + k] = word[k]

Hits(words, text) == Cardinality({i \in 1..Len(words) : Occurs(words[i], text)})

\* C7: score is the number of positive-lexicon words occurring in the
\* lower-cased text minus the number of negative-lexicon words occurring in
\* it, sentiment is the sign of the score (zero is neutral), and two positive
\* words with no negative word give positive, 2.
C7_ScoreIsLexiconDifference ==
    ~IsNone(analysis_out) =>
        LET a == Val(analysis_out)
            p == Hits(positive_words, Lower(content_in))
            n == Hits(negative_words, Lower(content_in))
        IN  /\ a.score = p - n
            /\ a.sentiment = "positive" <=> p > n
            /\ a.sentiment = "negative" <=> p < n
            /\ a.sentiment = "neutral" <=> p = n
            /\ (p = 2 /\ n = 0) => (a.sentiment = "positive" /\ a.score = 2)

C7_Witness ==
    /\ ~IsNone(analysis_out)
    /\ Hits(positive_words, Lower(content_in)) = 2
    /\ Hits(negative_words, Lower(content_in)) = 0
    /\ Val(analysis_out).score = 2
    /\ \E i \in 1..Len(content_in) : content_in[i] # LowerChar(content_in[i])

====
